---- MODULE Spec2Model ----
(***************************************************************************)
(* Archive synchronization pipeline of project-instapaper-archive.         *)
(*                                                                         *)
(* Two orchestrators are modelled, each as the sequential program it is:   *)
(*   export : scripts/export_instapaper_to_obsidian.py   (live pagination) *)
(*   bulk   : scripts/bulk_import_instapaper_from_csv.py (CSV candidates)  *)
(* A behaviour fixes one of them (prog) and follows up to MaxRuns process  *)
(* launches of it.  A process ends normally, by an uncaught exception, or  *)
(* by being killed; the manifest file and the vault survive, memory does   *)
(* not.  (Spec, FairSpec)                                                  *)
(*                                                                         *)
(* UnitSpec exercises components on their own, one per behaviour (unit):   *)
(* the two retry wrappers, the counters of the bulk import's main loop,    *)
(* folder resolution, the normalisation of list answers, the timestamp     *)
(* chain, and the reading of one CSV row by the bulk import and by the     *)
(* remediation pass.                                                       *)
(*                                                                         *)
(* RemSpec follows scripts/find_missing_markdown_articles.py step by step  *)
(* while one bulk import may be running on the same manifest file.         *)
(***************************************************************************)
EXTENDS Integers, FiniteSets, Sequences, TLC

\* ---------------------------------------------------------------- bounds
MaxId   == 2      \* bookmark identifiers of the remote source: 1..MaxId
MaxRuns == 2      \* process launches followed in one behaviour
MaxCsv  == 2      \* rows of archived bookmarks in the CSV export
HaveCap == 1      \* stand-in for the cap on the 'have' hint, below MaxId
MaxCalls == 2     \* wrapped calls followed one after the other
MaxRows  == 51    \* manifest entries one bulk session adds
MaxData  == 2     \* elements of a list the remote returns

\* ------------------------------------------------------- program constants
MAX_LIMIT        == 500
SAVE_EVERY_OK    == 20
SAVE_EVERY_FAIL  == 50
MAX_RETRIES      == 5
BACKOFF_FACTOR   == 2
TITLE_MAX        == 80

Ids    == 1..MaxId
Source == Ids     \* the unchanged remote collection

FOLDER_KEY == "archive"

\* user-defined folder lists the account may hold: title -> folder_id
FolderLists == { <<>>, ("archive" :> "f9"), ("news" :> "f7") }

VARIABLES
  prog,                 \* "export" or "bulk": the program of this behaviour
  pc,                   \* position of the running process in main()
  exit,                 \* "running", or how the process ended
  run,                  \* number of the current process launch
  bid,                  \* the item being processed (0: none)
  written,              \* ids whose Markdown document is in the vault
  noContent,            \* ids some content fetch returned nothing for
  \* ---- export
  processed,            \* in-memory manifest: set of bookmark ids
  MANIFEST_FILE,        \* ~/.instapaper_manifest.json
  bms,                  \* bookmarks of the current batch still to visit
  folder_id,
  payload,              \* the list request in flight
  allSeen,              \* the last batch was non-empty and held no new id
  \* ---- bulk
  processed_manifest,   \* in-memory manifest: str(id) -> entry
  BULK_MANIFEST_FILE,   \* ~/.instapaper_bulk_import_manifest.json
  csv,                  \* ids of the archived rows of the CSV, in order
  idx,                  \* position of the for loop in archived_bookmarks
  processed_in_session,
  \* ---- history of the previous and the current process
  prevExit,             \* how the previous process ended ("none": first)
  prevDone,             \* ids recorded after a completed write in the
                        \* previous process' memory when it ended
  diskAtStart,          \* the manifest file as the current process found it
  fetchedRun,           \* ids a content fetch was started for, this process
  wroteRun,             \* ids a document was written for, this process
  bootstrap,            \* the xAuth exchanges of this process and the last
                        \* outcome: [attempts, result]
  slept,                \* time.sleep(RATE_DELAY) ran since the last content
                        \* fetch of this process began
  answer,               \* what the latest /bookmarks/list answer was:
                        \* "none", "flat_error" or "other"
  \* ---- components exercised on their own (UnitSpec)
  unit,                 \* "none", or the component of this behaviour
  rq,                   \* one wrapped call of the retry wrappers
  ck,                   \* counters of the bulk import's main loop
  io,                   \* arguments and result of a function call
  \* ---- the remediation pass (RemSpec)
  rem                   \* find_missing_markdown_articles.py: its position
                        \* and its local variables

vars == << prog, pc, exit, run, bid, written, noContent,
           processed, MANIFEST_FILE, bms, folder_id, payload,
           allSeen, processed_manifest, BULK_MANIFEST_FILE, csv, idx,
           processed_in_session, prevExit, prevDone, diskAtStart,
           fetchedRun, wroteRun, bootstrap, slept, answer, unit, rq, ck, io,
           rem >>

unitVars == << unit, rq, ck, io, rem >>
launch   == << prog, run, prevExit, prevDone, diskAtStart, unitVars >>
common   == << launch, bootstrap, answer >>
exportMem == << processed, bms, folder_id, payload, allSeen >>
bulkMem   == << processed_manifest, idx, processed_in_session >>
bulkAll   == << processed_manifest, BULK_MANIFEST_FILE, csv, idx,
                processed_in_session >>
exportAll == << processed, MANIFEST_FILE, bms, folder_id, payload, allSeen >>
vault     == << written, noContent >>
hist      == << fetchedRun, wroteRun, slept >>

\* ------------------------------------------------------------ file states
\* A manifest file is absent, holds a complete JSON document, or holds the
\* empty / half-written text left by an interrupted write_text.
Absent      == [kind |-> "absent"]
Partial     == [kind |-> "partial"]
Json(doc)   == [kind |-> "json", doc |-> doc]

NoPayload == [limit |-> 0, folder_id |-> "", have |-> {}]

Str(b) == ToString(b)

TitleOf(b) == <<"title", b>>
PathOf(b)  == <<"VAULT_PATH", b>>

SuccessEntry(b) ==
  [status |-> "success", title |-> TitleOf(b), file_path |-> PathOf(b)]
FetchFailedEntry(b, msg) ==
  [status |-> "text_fetch_failed", title |-> TitleOf(b),
   error_message |-> msg]
ConversionFailedEntry(b) ==
  [status |-> "markdown_conversion_failed", title |-> TitleOf(b),
   error_message |-> "str(e)"]

Running == exit = "running"

NoBootstrap == [attempts |-> 0, result |-> "none"]
NoError     == [type |-> "none", status |-> 0]
NoResponse  == [exc |-> "none", status |-> 0, body |-> "none"]
NoCall      == [wrapper |-> "none", call |-> 0, attempt |-> 0, delay |-> 0,
                sleeps |-> <<>>, made |-> 0, all503 |-> TRUE,
                outcome |-> "none", last_error |-> NoError,
                last |-> NoResponse]
NoLoop      == [processed_in_session |-> 0, unsaved |-> 0]
NoIO        == [fn |-> "none", key |-> "", data |-> <<>>, out |-> <<>>]
NoRem       == [pc |-> "off", outcome |-> "none", missing |-> {},
                loaded |-> <<>>, manifest_data |-> <<>>, backup |-> Absent,
                disk |-> Absent]

IdsOf(file) == IF file.kind = "json" THEN file.doc ELSE {}

\* ------------------------------------------------------------------ Init
Init ==
  /\ prog \in {"export", "bulk"}
  /\ pc = "oauth"
  /\ exit = "running"
  /\ run = 1
  /\ bid = 0
  /\ written = {}
  /\ noContent = {}
  /\ processed = {}
  /\ MANIFEST_FILE = Absent
  /\ bms = {}
  /\ folder_id = ""
  /\ payload = NoPayload
  /\ allSeen = FALSE
  /\ processed_manifest = <<>>
  /\ BULK_MANIFEST_FILE = Absent
  /\ csv \in IF prog = "bulk"
             THEN UNION { [1..n -> Ids] : n \in 0..MaxCsv }
             ELSE { <<>> }
  /\ idx = 0
  /\ processed_in_session = 0
  /\ prevExit = "none"
  /\ prevDone = {}
  /\ diskAtStart = Absent
  /\ fetchedRun = {}
  /\ wroteRun = {}
  /\ bootstrap = NoBootstrap
  /\ slept = FALSE /\ answer = "none"
  /\ unit = "none" /\ rq = NoCall /\ ck = NoLoop /\ io = NoIO
  /\ rem = NoRem

\* ================================================ list-response shapes ==
\* elements of a flat /bookmarks/list answer; dict = FALSE: not an object
ListItems ==
  [dict : {TRUE}, type : {"bookmark"}, bookmark_id : Ids]
  \cup [dict : {TRUE}, type : {"meta", "user", "error"}, bookmark_id : {0}]
  \cup [dict : {FALSE}, type : {"bookmark"}, bookmark_id : {0}]
ItemSeqs == UNION { [1..n -> ListItems] : n \in 0..MaxData }

\* the parsed answer: a list, or an object whose "bookmarks" key is missing,
\* null, or an array
ListAnswers ==
  { [shape |-> "list", bookmarks |-> "array", items |-> q] : q \in ItemSeqs }
  \cup { [shape |-> "dict", bookmarks |-> b, items |-> q] :
           b \in {"array"}, q \in ItemSeqs }
  \cup { [shape |-> "dict", bookmarks |-> b, items |-> <<>>] :
           b \in {"missing", "null"} }

RECURSIVE only_bookmarks(_)
only_bookmarks(q) ==
  IF q = <<>> THEN <<>>
  ELSE IF Head(q).dict /\ Head(q).type = "bookmark"
         THEN <<Head(q)>> \o only_bookmarks(Tail(q))
         ELSE only_bookmarks(Tail(q))

\* a normalisation that raises when a flat answer holds an error record
normalize_error_raises(data) ==
  IF data.shape = "dict"
    THEN CASE data.bookmarks = "missing" ->
                [raised |-> "none", bookmarks |-> <<>>]
           [] data.bookmarks = "null" ->
                [raised |-> "TypeError", bookmarks |-> <<>>]
           [] OTHER -> [raised |-> "none", bookmarks |-> data.items]
    ELSE IF \E i \in DOMAIN data.items :
              data.items[i].dict /\ data.items[i].type = "error"
      THEN [raised |-> "RequestException", bookmarks |-> <<>>]
      ELSE [raised |-> "none", bookmarks |-> only_bookmarks(data.items)]

\* fetch_bookmarks after retry_request returned `data`: the object branch
\* takes data.get("bookmarks", []) and logs len(bookmarks), which raises
\* TypeError on None before the `if bookmarks is None` below is reached.
normalize(data) ==
  IF data.shape = "dict"
    THEN CASE data.bookmarks = "missing" ->
                [raised |-> "none", bookmarks |-> <<>>]
           [] data.bookmarks = "null" ->
                [raised |-> "TypeError", bookmarks |-> <<>>]
           [] OTHER -> [raised |-> "none", bookmarks |-> data.items]
    ELSE [raised |-> "none", bookmarks |-> only_bookmarks(data.items)]

\* a flat answer with an error record and no bookmark record
ErrorOnly(data) ==
  /\ data.shape = "list"
  /\ \E i \in DOMAIN data.items :
       data.items[i].dict /\ data.items[i].type = "error"
  /\ only_bookmarks(data.items) = <<>>

AnswerKind(data) == IF ErrorOnly(data) THEN "flat_error" ELSE "other"

\* the answers whose bookmark list holds bookmark records only, as the loop
\* of main() expects: int(bm["bookmark_id"])
Proper(data) ==
  data.shape = "dict" =>
    \A i \in DOMAIN data.items :
      data.items[i].dict /\ data.items[i].type = "bookmark"

\* the identifiers of a batch
BatchOf(bookmarks) == { bookmarks[i].bookmark_id : i \in DOMAIN bookmarks }

\* ============================================================== export ==

\* Outcomes of oauth.post(ACCESS_TOKEN_URL, ...): the token pair, a rejection
\* of the credentials, an unavailable service, no connection.
BootstrapOutcomes == {"ok", "401", "503", "ConnectionError"}

\* How main() goes on after get_oauth_session(): oauth.post raises the
\* transport error, raise_for_status() raises on 401 and 503, nothing
\* catches either.
OAuthExit_swallowed(r) == "running"
OAuthExit(r) ==
  IF r = "ok" THEN "running"
  ELSE IF r = "401" THEN "auth_error" ELSE "bootstrap_error"

\* get_oauth_session(): one xAuth exchange, called directly on the session.
export_get_oauth_session ==
  /\ prog = "export" /\ Running /\ pc = "oauth"
  /\ \E r \in BootstrapOutcomes :
       /\ bootstrap' = [attempts |-> bootstrap.attempts + 1, result |-> r]
       /\ exit' = OAuthExit(r)
       /\ pc' = IF exit' = "running" THEN "folders" ELSE pc
  /\ UNCHANGED << launch, answer, bid, vault, exportAll, bulkAll, hist >>

\* user_folders.get(FOLDER_KEY, FOLDER_KEY)
resolve(user_folders, key) ==
  IF key \in DOMAIN user_folders THEN user_folders[key] ELSE key

\* fetch_folders(sess) and the choice of folder_id in main().
export_fetch_folders ==
  /\ prog = "export" /\ Running /\ pc = "folders"
  /\ \/ \E user_folders \in FolderLists :
          /\ folder_id' = resolve(user_folders, FOLDER_KEY)
          /\ pc' = "load" /\ exit' = exit
     \/ /\ folder_id' = folder_id
        /\ pc' = pc /\ exit' = "folders_error"
  /\ UNCHANGED << common, bid, vault, processed, MANIFEST_FILE, bms, payload, allSeen, bulkAll, hist >>

\* load_manifest(): set(json.loads(text)) if the file exists else set();
\* json.loads raises on text that is not a JSON document.
export_load_manifest ==
  /\ prog = "export" /\ Running /\ pc = "load"
  /\ IF MANIFEST_FILE.kind = "partial"
       THEN processed' = processed /\ pc' = pc /\ exit' = "load_error"
       ELSE processed' = IdsOf(MANIFEST_FILE) /\ pc' = "while"
            /\ exit' = exit
  /\ UNCHANGED << common, bid, vault, MANIFEST_FILE, bms, folder_id, payload, allSeen, bulkAll, hist >>

\* the 'have' value fetch_bookmarks puts in the request: all of have_list
HaveOf(have_list) == have_list

\* fetch_bookmarks(sess, processed, folder_id), first half: the request.
export_fetch_bookmarks_request ==
  /\ prog = "export" /\ Running /\ pc = "while"
  /\ payload' = [limit |-> MAX_LIMIT, folder_id |-> folder_id,
                 have |-> HaveOf(processed)]
  /\ pc' = "list_wait"
  /\ UNCHANGED << common, exit, bid, vault, processed, MANIFEST_FILE, bms,
                  folder_id, allSeen, bulkAll, hist >>

\* where main() goes after a batch arrived: `if not bms: break`
AfterBatch(batch) == IF batch = {} THEN "fsave_open" ELSE "for"

\* fetch_bookmarks, second half: the answer retry_request returned,
\* normalised to a batch, and the test `if not bms: break` of main().  The
\* remote may honour the hint, ignore it, or answer with nothing;
\* retry_request may give up and raise, and so may the normalisation.
export_fetch_bookmarks_response ==
  /\ prog = "export" /\ Running /\ pc = "list_wait"
  /\ payload' = NoPayload
  /\ \/ \E data \in { d \in ListAnswers : Proper(d) } :
          LET r     == normalize(data)
              batch == BatchOf(r.bookmarks)
          IN  /\ answer' = AnswerKind(data)
              /\ IF r.raised # "none"
                   THEN /\ bms' = bms /\ allSeen' = allSeen
                        /\ pc' = pc /\ exit' = "list_error"
                   ELSE /\ Cardinality(batch) <= MAX_LIMIT
                        /\ bms' = batch
                        /\ allSeen' = (batch # {} /\ batch \subseteq processed)
                        /\ pc' = AfterBatch(batch)
                        /\ exit' = exit
     \/ /\ bms' = bms /\ allSeen' = allSeen /\ answer' = answer
        /\ pc' = pc /\ exit' = "list_error"
  /\ UNCHANGED << launch, bootstrap, bid, vault, processed, MANIFEST_FILE,
                  folder_id, bulkAll, hist >>

\* a loop that never takes the `continue`
export_skip_never(b, seen) == FALSE

\* `if bid in processed: continue`
export_skip(b, seen) == b \in seen

\* a loop that goes back to the next list request without saving
AfterLastBookmark_unsaved == "while"

\* after `for bm in bms` is exhausted: save_manifest(processed)
AfterLastBookmark == "isave_open"

\* for bm in bms: the next bookmark is skipped or becomes the current item;
\* the exhausted batch leads to the intermediate save_manifest.
export_for ==
  /\ prog = "export" /\ Running /\ pc = "for"
  /\ IF bms = {}
       THEN pc' = AfterLastBookmark /\ UNCHANGED << bid, bms >>
       ELSE \E b \in bms :
              /\ bms' = bms \ {b}
              /\ IF export_skip(b, processed)
                   THEN pc' = "for" /\ bid' = bid
                   ELSE pc' = "fetch_text" /\ bid' = b
  /\ UNCHANGED << common, exit, vault, processed, MANIFEST_FILE, folder_id,
                  payload, allSeen, bulkAll, hist >>

\* an empty fetch that leaves the manifest alone
MarkEmpty_unmarked(seen, b) == seen

\* processed.add(bid) of the `if not html:` branch
MarkEmpty(seen, b) == seen \cup {b}

\* html = fetch_full_text(sess, bid); `if not html:` marks and continues.
export_fetch_full_text ==
  /\ prog = "export" /\ Running /\ pc = "fetch_text"
  /\ fetchedRun' = fetchedRun \cup {bid}
  /\ slept' = FALSE
  /\ \E html \in {"html", ""} :
       IF html = ""
         THEN /\ processed' = MarkEmpty(processed, bid)
              /\ noContent' = noContent \cup {bid}
              /\ pc' = "for"
         ELSE /\ UNCHANGED << processed, noContent >>
              /\ pc' = "convert"
  /\ UNCHANGED << common, exit, bid, written, MANIFEST_FILE, bms, folder_id,
                  payload, allSeen, bulkAll, wroteRun >>

\* mdt = md(html, ...): not guarded, an exception ends the process.
export_convert ==
  /\ prog = "export" /\ Running /\ pc = "convert"
  /\ \E ok \in BOOLEAN :
       IF ok THEN pc' = "write" /\ exit' = exit
             ELSE pc' = pc /\ exit' = "convert_error"
  /\ UNCHANGED << common, bid, vault, exportAll, bulkAll, hist >>

\* a write failure that falls through to the record step
AfterWrite_always_record(ok) == "record"

\* where the item goes after open(out, "w") / f.write: a failure continues
\* with the next bookmark, a completed write goes on to processed.add
AfterWrite(ok) == IF ok THEN "record" ELSE "for"

\* with open(out, "w") as f: f.write(...)
export_write ==
  /\ prog = "export" /\ Running /\ pc = "write"
  /\ \E ok \in BOOLEAN :
       /\ pc' = AfterWrite(ok)
       /\ IF ok THEN written' = written \cup {bid}
                     /\ wroteRun' = wroteRun \cup {bid}
               ELSE UNCHANGED << written, wroteRun >>
  /\ UNCHANGED << common, exit, bid, noContent, exportAll, bulkAll,
                  fetchedRun, slept >>

\* a manifest that keeps the latest id only
Record_latest_only(seen, b) == {b}

\* processed.add(bid) after the write
Record(seen, b) == seen \cup {b}

\* processed.add(bid); count += 1; time.sleep(RATE_DELAY)
export_record ==
  /\ prog = "export" /\ Running /\ pc = "record"
  /\ processed' = Record(processed, bid)
  /\ slept' = TRUE
  /\ pc' = "for"
  /\ UNCHANGED << common, exit, bid, vault, MANIFEST_FILE, bms, folder_id,
                  payload, allSeen, bulkAll, fetchedRun, wroteRun >>

\* MANIFEST_FILE.write_text(...), first half: open(mode='w') truncates.
export_save_open ==
  /\ prog = "export" /\ Running /\ pc \in {"isave_open", "fsave_open"}
  /\ MANIFEST_FILE' = Partial
  /\ pc' = IF pc = "isave_open" THEN "isave_write" ELSE "fsave_write"
  /\ UNCHANGED << common, exit, bid, vault, exportMem, bulkAll, hist >>

\* write_text, second half: the text is written and the file closed.
export_save_write ==
  /\ prog = "export" /\ Running /\ pc \in {"isave_write", "fsave_write"}
  /\ MANIFEST_FILE' = Json(processed)
  /\ IF pc = "isave_write"
       THEN pc' = "while" /\ exit' = exit
       ELSE pc' = pc /\ exit' = "normal"
  /\ UNCHANGED << common, bid, vault, exportMem, bulkAll, hist >>

\* ================================================================ bulk ==

\* Whether the main loop calls save_manifest after recording an entry of this
\* status, processed_in_session being the count that includes it.
SaveDue(status, n) ==
  CASE status = "success"           -> n % SAVE_EVERY_OK = 0
    [] status = "text_fetch_failed" -> n % SAVE_EVERY_FAIL = 0
    [] OTHER                        -> FALSE

\* get_oauth_session() of the bulk import.
bulk_get_oauth_session ==
  /\ prog = "bulk" /\ Running /\ pc = "oauth"
  /\ \E r \in BootstrapOutcomes :
       /\ bootstrap' = [attempts |-> bootstrap.attempts + 1, result |-> r]
       /\ exit' = OAuthExit(r)
       /\ pc' = IF exit' = "running" THEN "load" ELSE pc
  /\ UNCHANGED << launch, answer, bid, vault, exportAll, bulkAll, hist >>

\* a load that keeps the success entries only
ManifestOf_success_only(file) ==
  IF file.kind = "json"
    THEN [k \in { j \in DOMAIN file.doc : file.doc[j].status = "success" }
            |-> file.doc[k]]
    ELSE <<>>

\* json.loads(BULK_MANIFEST_FILE.read_text()) if the file exists, else {}
ManifestOf(file) == IF file.kind = "json" THEN file.doc ELSE <<>>

\* load_manifest(): json.loads(text) if the file exists else {}.
bulk_load_manifest ==
  /\ prog = "bulk" /\ Running /\ pc = "load"
  /\ IF BULK_MANIFEST_FILE.kind = "partial"
       THEN processed_manifest' = processed_manifest
            /\ pc' = pc /\ exit' = "load_error"
       ELSE processed_manifest' = ManifestOf(BULK_MANIFEST_FILE)
            /\ pc' = "csv" /\ exit' = exit
  /\ UNCHANGED << common, bid, vault, exportAll, BULK_MANIFEST_FILE, csv, idx,
                  processed_in_session, hist >>

\* archived_bookmarks = load_archived_bookmarks_from_csv();
\* `if not archived_bookmarks: return`
bulk_load_csv ==
  /\ prog = "bulk" /\ Running /\ pc = "csv"
  /\ IF csv = <<>>
       THEN pc' = pc /\ exit' = "normal" /\ idx' = idx
       ELSE pc' = "for" /\ exit' = exit /\ idx' = 1
  /\ UNCHANGED << common, bid, vault, exportAll, processed_manifest,
                  BULK_MANIFEST_FILE, csv, processed_in_session, hist >>

\* the variant that skips only entries whose status is success
bulk_skip_success_only(b, manifest) ==
  /\ Str(b) \in DOMAIN manifest
  /\ manifest[Str(b)].status = "success"

\* `if bid_str in processed_manifest: continue`
bulk_skip(b, manifest) == Str(b) \in DOMAIN manifest

\* for bm_data in archived_bookmarks: skip, take, or leave the loop.
bulk_for ==
  /\ prog = "bulk" /\ Running /\ pc = "for"
  /\ IF idx > Len(csv)
       THEN pc' = "fsave_open" /\ UNCHANGED << bid, idx >>
       ELSE IF bulk_skip(csv[idx], processed_manifest)
              THEN pc' = "for" /\ idx' = idx + 1 /\ bid' = bid
              ELSE pc' = "fetch_text" /\ bid' = csv[idx] /\ idx' = idx
  /\ UNCHANGED << common, exit, vault, exportAll, processed_manifest,
                  BULK_MANIFEST_FILE, csv, processed_in_session, hist >>

\* html_content, fetch_error_msg = fetch_full_text(sess, bid);
\* `if not html_content:` records text_fetch_failed, saves every 50th.
bulk_fetch_full_text ==
  /\ prog = "bulk" /\ Running /\ pc = "fetch_text"
  /\ fetchedRun' = fetchedRun \cup {bid}
  /\ slept' = FALSE
  /\ \E res \in { <<"html", "None">>, <<"", "None">>, <<"", "str(e)">> } :
       IF res[1] = ""
         THEN /\ processed_manifest' =
                   (Str(bid) :> FetchFailedEntry(bid,
                        IF res[2] = "None"
                          THEN "No HTML content returned"
                          ELSE res[2]))
                   @@ processed_manifest
              /\ noContent' = noContent \cup {bid}
              /\ processed_in_session' = processed_in_session + 1
              /\ idx' = idx + 1
              /\ pc' = IF SaveDue("text_fetch_failed", processed_in_session')
                         THEN "isave_open" ELSE "for"
         ELSE /\ UNCHANGED << processed_manifest, noContent,
                              processed_in_session, idx >>
              /\ pc' = "convert"
  /\ UNCHANGED << common, exit, bid, written, exportAll, BULK_MANIFEST_FILE,
                  csv, wroteRun >>

\* md_content = md(html_content, ...) inside try/except: a failure records
\* markdown_conversion_failed and continues (no save).
bulk_convert ==
  /\ prog = "bulk" /\ Running /\ pc = "convert"
  /\ \E ok \in BOOLEAN :
       IF ok
         THEN /\ pc' = "write"
              /\ UNCHANGED << processed_manifest, processed_in_session, idx >>
         ELSE /\ processed_manifest' =
                   (Str(bid) :> ConversionFailedEntry(bid))
                   @@ processed_manifest
              /\ processed_in_session' = processed_in_session + 1
              /\ idx' = idx + 1
              /\ pc' = "for"
  /\ UNCHANGED << common, exit, bid, vault, exportAll, BULK_MANIFEST_FILE,
                  csv, hist >>

\* with open(output_file_path, "w") as f: f.write(...); a failure continues
\* with the next row and leaves the manifest alone.
bulk_write ==
  /\ prog = "bulk" /\ Running /\ pc = "write"
  /\ \E ok \in BOOLEAN :
       /\ pc' = AfterWrite(ok)
       /\ IF ok THEN written' = written \cup {bid}
                     /\ wroteRun' = wroteRun \cup {bid}
                     /\ idx' = idx
               ELSE UNCHANGED << written, wroteRun >> /\ idx' = idx + 1
  /\ UNCHANGED << common, exit, bid, noContent, exportAll, processed_manifest,
                  BULK_MANIFEST_FILE, csv, processed_in_session, fetchedRun,
                  slept >>

\* processed_manifest[bid_str] = {"status": "success", ...}; the counters;
\* time.sleep(RATE_DELAY); save_manifest every 20th.
bulk_record ==
  /\ prog = "bulk" /\ Running /\ pc = "record"
  /\ processed_manifest' = (Str(bid) :> SuccessEntry(bid)) @@ processed_manifest
  /\ processed_in_session' = processed_in_session + 1
  /\ idx' = idx + 1
  /\ pc' = IF SaveDue("success", processed_in_session')
             THEN "isave_open" ELSE "for"
  /\ slept' = TRUE
  /\ UNCHANGED << common, exit, bid, vault, exportAll, BULK_MANIFEST_FILE,
                  csv, fetchedRun, wroteRun >>

\* BULK_MANIFEST_FILE.write_text(...), first half: open(mode='w') truncates.
bulk_save_open ==
  /\ prog = "bulk" /\ Running /\ pc \in {"isave_open", "fsave_open"}
  /\ BULK_MANIFEST_FILE' = Partial
  /\ pc' = IF pc = "isave_open" THEN "isave_write" ELSE "fsave_write"
  /\ UNCHANGED << common, exit, bid, vault, exportAll, bulkMem, csv, hist >>

\* write_text, second half: the text is written and the file closed.
bulk_save_write ==
  /\ prog = "bulk" /\ Running /\ pc \in {"isave_write", "fsave_write"}
  /\ BULK_MANIFEST_FILE' = Json(processed_manifest)
  /\ IF pc = "isave_write"
       THEN pc' = "for" /\ exit' = exit
       ELSE pc' = pc /\ exit' = "normal"
  /\ UNCHANGED << common, bid, vault, exportAll, bulkMem, csv, hist >>

\* ======================================================= process lifetime ==

\* the manifest file of the program of this behaviour
Disk == IF prog = "export" THEN MANIFEST_FILE ELSE BULK_MANIFEST_FILE

\* ids the in-memory manifest marks as archived
MemSuccess ==
  IF prog = "export"
    THEN processed
    ELSE { b \in Ids : /\ Str(b) \in DOMAIN processed_manifest
                       /\ processed_manifest[Str(b)].status = "success" }

\* ids this process recorded after their document was written
RecordedRun ==
  (wroteRun \ (IF pc = "record" THEN {bid} ELSE {})) \cap MemSuccess

\* The process is killed (SIGKILL, power loss) wherever it stands.
Kill ==
  /\ Running
  /\ exit' = "killed"
  /\ UNCHANGED << common, pc, bid, vault, exportAll, bulkAll, hist >>

\* The program is launched again: memory starts afresh, files are kept.
Start ==
  /\ ~Running
  /\ run < MaxRuns
  /\ run' = run + 1
  /\ prevExit' = exit
  /\ prevDone' = RecordedRun
  /\ diskAtStart' = Disk
  /\ exit' = "running"
  /\ pc' = "oauth"
  /\ bid' = 0
  /\ processed' = {} /\ bms' = {} /\ folder_id' = "" /\ payload' = NoPayload
  /\ allSeen' = FALSE
  /\ processed_manifest' = <<>> /\ idx' = 0 /\ processed_in_session' = 0
  /\ fetchedRun' = {} /\ wroteRun' = {} /\ slept' = FALSE
  /\ bootstrap' = NoBootstrap /\ answer' = "none"
  /\ UNCHANGED << prog, vault, MANIFEST_FILE, BULK_MANIFEST_FILE, csv,
                  unitVars >>

Next ==
  \/ export_get_oauth_session
  \/ export_fetch_folders
  \/ export_load_manifest
  \/ export_fetch_bookmarks_request
  \/ export_fetch_bookmarks_response
  \/ export_for
  \/ export_fetch_full_text
  \/ export_convert
  \/ export_write
  \/ export_record
  \/ export_save_open
  \/ export_save_write
  \/ bulk_get_oauth_session
  \/ bulk_load_manifest
  \/ bulk_load_csv
  \/ bulk_for
  \/ bulk_fetch_full_text
  \/ bulk_convert
  \/ bulk_write
  \/ bulk_record
  \/ bulk_save_open
  \/ bulk_save_write
  \/ Kill
  \/ Start

Spec == Init /\ [][Next]_vars

TypeOK ==
  /\ prog \in {"export", "bulk"}
  /\ run \in 1..MaxRuns
  /\ bid \in Ids \cup {0}
  /\ written \subseteq Ids /\ noContent \subseteq Ids
  /\ processed \subseteq Ids /\ bms \subseteq Ids
  /\ fetchedRun \subseteq Ids /\ wroteRun \subseteq fetchedRun

\* The program keeps taking steps while it runs (a sequential process that is
\* not killed goes on); the environment is not constrained.
ProgramStep == Next /\ Running /\ exit' # "killed"
FairSpec == Init /\ [][Next]_vars /\ WF_vars(ProgramStep)

\* ====================================================== remediation pass ==
\* scripts/find_missing_markdown_articles.py, run on the files of the bulk
\* import while an import may be running too (RemSpec).  rem.missing is
\* missing_article_bids, rem.loaded the manifest as json.loads returned it,
\* rem.manifest_data the same dict as the pass changes it, rem.backup the
\* .bak copy, rem.disk the manifest file as the pass found it when it opened
\* it for writing.

\* everything the pass neither reads into rem nor writes
notRem == << unit, rq, ck, io, prog, run, prevExit, prevDone, diskAtStart,
             bootstrap, answer, pc, exit, bid, vault, exportAll,
             processed_manifest,
             csv, idx, processed_in_session, hist >>

\* the archived rows whose expected Markdown file is not in the vault
MissingBids(rows, files) == { rows[i] : i \in DOMAIN rows } \ files

\* the listing of the vault and the loop over the CSV rows; `if not
\* missing_article_bids: return`.  A failure to list or to read returns.
rem_scan ==
  /\ rem.pc = "scan"
  /\ \/ rem' = [rem EXCEPT !.pc = "done", !.outcome = "scan_error"]
     \/ LET missing == MissingBids(csv, written)
        IN  rem' = IF missing = {}
                     THEN [rem EXCEPT !.pc = "done",
                                      !.outcome = "nothing_missing"]
                     ELSE [rem EXCEPT !.pc = "load", !.missing = missing]
  /\ UNCHANGED << notRem, BULK_MANIFEST_FILE >>

\* `if not bulk_manifest_file_path.exists(): return`, then
\* json.loads(read_text()) with both except clauses returning.
rem_load ==
  /\ rem.pc = "load"
  /\ \/ /\ BULK_MANIFEST_FILE.kind = "absent"
        /\ rem' = [rem EXCEPT !.pc = "done", !.outcome = "no_manifest"]
     \/ /\ BULK_MANIFEST_FILE.kind = "partial"
        /\ rem' = [rem EXCEPT !.pc = "done", !.outcome = "unparseable"]
     \/ /\ BULK_MANIFEST_FILE.kind # "absent"
        /\ rem' = [rem EXCEPT !.pc = "done", !.outcome = "unreadable"]
     \/ /\ BULK_MANIFEST_FILE.kind = "json"
        /\ rem' = [rem EXCEPT !.pc = "backup",
                              !.loaded = BULK_MANIFEST_FILE.doc,
                              !.manifest_data = BULK_MANIFEST_FILE.doc]
  /\ UNCHANGED << notRem, BULK_MANIFEST_FILE >>

\* a pass that goes on whatever shutil.copy2 did
AfterBackup_unchecked(ok) == "remove"

\* try: shutil.copy2(...) except Exception: return
AfterBackup(ok) == IF ok THEN "remove" ELSE "done"

\* shutil.copy2(bulk_manifest_file_path, backup_file_name)
rem_backup ==
  /\ rem.pc = "backup"
  /\ \E ok \in BOOLEAN :
       rem' = [rem EXCEPT
                 !.pc = AfterBackup(ok),
                 !.backup = IF ok THEN BULK_MANIFEST_FILE ELSE Absent,
                 !.outcome = IF ok THEN @ ELSE "backup_failed"]
  /\ UNCHANGED << notRem, BULK_MANIFEST_FILE >>

\* a loop that spares the entries of status success
rem_delete_failed_only(manifest_data, missing) ==
  [k \in { j \in DOMAIN manifest_data :
             \/ j \notin { Str(b) : b \in missing }
             \/ manifest_data[j].status = "success" }
     |-> manifest_data[k]]

\* for bid_to_remove in missing_article_bids:
\*     if bid_str_to_remove in manifest_data: del manifest_data[...]
rem_delete(manifest_data, missing) ==
  [k \in DOMAIN manifest_data \ { Str(b) : b \in missing }
     |-> manifest_data[k]]

\* The removal loop and write_text's open(mode='w'), which truncates the
\* file; an open that fails is logged and the pass ends.
rem_remove ==
  /\ rem.pc = "remove"
  /\ \/ /\ rem' = [rem EXCEPT
                     !.pc = "write",
                     !.manifest_data = rem_delete(@, rem.missing),
                     !.disk = BULK_MANIFEST_FILE]
        /\ BULK_MANIFEST_FILE' = Partial
     \/ /\ rem' = [rem EXCEPT
                     !.pc = "done", !.outcome = "write_failed",
                     !.manifest_data = rem_delete(@, rem.missing)]
        /\ BULK_MANIFEST_FILE' = BULK_MANIFEST_FILE
  /\ UNCHANGED notRem

\* write_text, second half: the text is written and the file closed, or the
\* write raises and the error is logged.
rem_save_write ==
  /\ rem.pc = "write"
  /\ \/ /\ BULK_MANIFEST_FILE' = Json(rem.manifest_data)
        /\ rem' = [rem EXCEPT !.pc = "done", !.outcome = "saved"]
     \/ /\ BULK_MANIFEST_FILE' = BULK_MANIFEST_FILE
        /\ rem' = [rem EXCEPT !.pc = "done", !.outcome = "write_failed"]
  /\ UNCHANGED notRem

\* the manifests the bulk import may have left: entries for some of the ids
Leftovers ==
  UNION { [ { Str(b) : b \in S } ->
              { SuccessEntry(b) : b \in Ids }
              \cup { FetchFailedEntry(b, "str(e)") : b \in Ids } ] :
          S \in SUBSET Ids }
Manifests ==
  { m \in Leftovers : \A b \in Ids :
      Str(b) \in DOMAIN m => m[Str(b)].title = TitleOf(b) }

\* The pass is about to run on a vault, a CSV and a manifest file that
\* earlier imports, and the user's deletions, have left; an import is launched.
RemInit ==
  /\ prog = "bulk"
  /\ pc = "oauth" /\ exit = "running" /\ run = 1 /\ bid = 0
  /\ written \in SUBSET Ids
  /\ noContent = {}
  /\ processed = {} /\ MANIFEST_FILE = Absent /\ bms = {}
  /\ folder_id = "" /\ payload = NoPayload /\ allSeen = FALSE
  /\ processed_manifest = <<>>
  /\ BULK_MANIFEST_FILE \in {Absent, Partial} \cup { Json(m) : m \in Manifests }
  /\ csv \in UNION { [1..n -> Ids] : n \in 0..MaxCsv }
  /\ idx = 0 /\ processed_in_session = 0
  /\ prevExit = "none" /\ prevDone = {} /\ diskAtStart = BULK_MANIFEST_FILE
  /\ fetchedRun = {} /\ wroteRun = {} /\ slept = FALSE
  /\ bootstrap = NoBootstrap /\ answer = "none"
  /\ unit = "none" /\ rq = NoCall /\ ck = NoLoop /\ io = NoIO
  /\ rem = [NoRem EXCEPT !.pc = "scan"]

RemNext ==
  \/ rem_scan
  \/ rem_load
  \/ rem_backup
  \/ rem_remove
  \/ rem_save_write
  \/ bulk_get_oauth_session
  \/ bulk_load_manifest
  \/ bulk_load_csv
  \/ bulk_for
  \/ bulk_fetch_full_text
  \/ bulk_convert
  \/ bulk_write
  \/ bulk_record
  \/ bulk_save_open
  \/ bulk_save_write

RemSpec == RemInit /\ [][RemNext]_vars

\* ====================================================== retry wrappers ==
\* retry_request (JSON) and retry_request_html, followed one wrapped call at
\* a time: rq.attempt is the loop variable, rq.delay the local delay,
\* rq.sleeps the arguments of time.sleep so far, rq.made the requests sent,
\* rq.last the latest answer and rq.all503 whether every answer was a 503.

Wrappers == {"retry_request", "retry_request_html"}

\* What sess.post(...) gives: an exception of the transport, or a response
\* with a status code and a body that is JSON data, a JSON object of type
\* 'error', or text that is not JSON.
Statuses  == {200, 204, 304, 400, 503}
Bodies    == {"json", "api_error", "text"}
Responses ==
  { [exc |-> e, status |-> 0, body |-> "none"] :
      e \in {"ConnectionError", "Timeout"} }
  \cup { [exc |-> "none", status |-> st, body |-> b] :
           st \in Statuses, b \in Bodies }

\* Response.raise_for_status(): raises HTTPError for 4xx and 5xx only.
raise_for_status(st) == 400 <= st /\ st < 600

Err(type, st) == [type |-> type, status |-> st]

\* The try block of one attempt: what it returns or raises.
attempt_json(resp) ==
  IF resp.exc # "none" THEN [returns |-> FALSE, e |-> Err(resp.exc, 0)]
  ELSE IF raise_for_status(resp.status)
    THEN [returns |-> FALSE, e |-> Err("HTTPError", resp.status)]
  ELSE IF resp.body = "text"
    THEN [returns |-> FALSE, e |-> Err("ValueError", resp.status)]
  ELSE IF resp.body = "api_error"
    THEN [returns |-> FALSE, e |-> Err("InstapaperAPIError", resp.status)]
  ELSE [returns |-> TRUE, e |-> NoError]

\* a wrapper that returns the body of every status raise_for_status accepts
attempt_html_any_success(resp) ==
  IF resp.exc # "none" THEN [returns |-> FALSE, e |-> Err(resp.exc, 0)]
  ELSE IF ~raise_for_status(resp.status)
    THEN [returns |-> TRUE, e |-> NoError]
  ELSE [returns |-> FALSE, e |-> Err("HTTPError", resp.status)]
\* retry_request_html: `if resp.status_code == 200: return resp.text`, then
\* raise_for_status(), then the RequestException "Unexpected status"
attempt_html(resp) ==
  IF resp.exc # "none" THEN [returns |-> FALSE, e |-> Err(resp.exc, 0)]
  ELSE IF resp.status = 200 THEN [returns |-> TRUE, e |-> NoError]
  ELSE IF raise_for_status(resp.status)
    THEN [returns |-> FALSE, e |-> Err("HTTPError", resp.status)]
  ELSE [returns |-> FALSE, e |-> Err("UnexpectedStatus", resp.status)]

\* The except block's decision: 503, connection errors and timeouts are
\* retried; retry_request also retries a body that is not JSON.
should_retry_no_decode(wrapper, e) ==
  IF e.type = "HTTPError" THEN e.status = 503
  ELSE e.type \in {"ConnectionError", "Timeout"}
should_retry(wrapper, e) ==
  IF e.type = "HTTPError" THEN e.status = 503
  ELSE IF wrapper = "retry_request"
    THEN e.type \in {"ConnectionError", "Timeout", "ValueError"}
    ELSE e.type \in {"ConnectionError", "Timeout"}

\* if not should_retry or attempt == MAX_RETRIES: raise last_error
GiveUp_uncapped(retry, attempt) == ~retry
GiveUp(retry, attempt) == ~retry \/ attempt = MAX_RETRIES

\* delay *= BACKOFF_FACTOR
NextDelay_additive(delay) == delay + BACKOFF_FACTOR
NextDelay(delay) == delay * BACKOFF_FACTOR

\* A wrapped call begins: delay = 1, last_error = None, attempt = 1.
retry_call ==
  /\ unit = "retry"
  /\ rq.outcome # "running"
  /\ rq.call < MaxCalls
  /\ \E w \in Wrappers :
       rq' = [wrapper |-> w, call |-> rq.call + 1, attempt |-> 1,
              delay |-> 1, sleeps |-> <<>>, made |-> 0, all503 |-> TRUE,
              outcome |-> "running", last_error |-> NoError,
              last |-> NoResponse]
  /\ UNCHANGED << rem, unit, ck, io, prog, pc, exit, run, bid, written, noContent,
                  exportAll, bulkAll, prevExit, prevDone, diskAtStart, hist,
                  bootstrap, answer >>

\* One iteration of `for attempt in range(1, MAX_RETRIES + 1)`: the request,
\* then return, raise, or sleep and go round again; the raise after the loop
\* is taken when the range is exhausted.
retry_attempt ==
  /\ unit = "retry"
  /\ rq.outcome = "running"
  /\ \E resp \in Responses :
       LET o    == IF rq.wrapper = "retry_request"
                     THEN attempt_json(resp) ELSE attempt_html(resp)
           seen == [rq EXCEPT !.made = @ + 1, !.last = resp,
                              !.all503 = @ /\ resp.status = 503]
       IN  IF o.returns
             THEN rq' = [seen EXCEPT !.outcome = "returned"]
           ELSE IF GiveUp(should_retry(rq.wrapper, o.e), rq.attempt)
             THEN rq' = [seen EXCEPT !.outcome = "raised",
                                     !.last_error = o.e]
           ELSE rq' = [seen EXCEPT
                  !.last_error = o.e,
                  !.sleeps = Append(@, rq.delay),
                  !.delay = NextDelay(rq.delay),
                  !.attempt = IF rq.attempt = MAX_RETRIES THEN @ ELSE @ + 1,
                  !.outcome = IF rq.attempt = MAX_RETRIES
                                THEN "raised" ELSE "running"]
  /\ UNCHANGED << rem, unit, ck, io, prog, pc, exit, run, bid, written, noContent,
                  exportAll, bulkAll, prevExit, prevDone, diskAtStart, hist,
                  bootstrap, answer >>

\* ================================================== bulk loop counters ==
\* The main loop of the bulk import seen through its counters only: each
\* step is one row that leaves a manifest entry; ck.unsaved counts the
\* entries added since save_manifest last ran.
EntryStatuses ==
  {"success", "text_fetch_failed", "markdown_conversion_failed"}

bulk_loop_row ==
  /\ unit = "loop"
  /\ ck.processed_in_session < MaxRows
  /\ \E status \in EntryStatuses :
       LET n == ck.processed_in_session + 1
       IN  ck' = [processed_in_session |-> n,
                  unsaved |-> IF SaveDue(status, n) THEN 0
                              ELSE ck.unsaved + 1]
  /\ UNCHANGED << rem, unit, rq, io, prog, pc, exit, run, bid, written, noContent,
                  exportAll, bulkAll, prevExit, prevDone, diskAtStart, hist,
                  bootstrap, answer >>

\* ==================================================== folder resolution ==
BuiltIn    == {"unread", "starred", "archive"}
FolderKeys == BuiltIn \cup {"news", "other"}

\* elements of the /folders/list answer
FolderItems ==
  [dict : {TRUE}, type : {"folder", "user"}, title : {"archive", "news"},
   folder_id : {"f7", "f9"}]
FolderData == UNION { [1..n -> FolderItems] : n \in 0..MaxData }

\* {f["title"]: f["folder_id"] for f in data if ... f.get("type")=="folder"}:
\* a later item of the same title replaces an earlier one.
fetch_folders(data) ==
  LET at(t) == { i \in 1..Len(data) : data[i].dict /\ data[i].type = "folder"
                                       /\ data[i].title = t }
      last(S) == CHOOSE i \in S : \A j \in S : j <= i
  IN  [t \in { data[i].title : i \in { j \in 1..Len(data) :
                    data[j].dict /\ data[j].type = "folder" } }
         |-> data[last(at(t))].folder_id]

\* main(): user_folders = fetch_folders(sess); folder_id = user_folders.get(..)
unit_resolve ==
  /\ unit = "resolve"
  /\ \E key \in FolderKeys, data \in FolderData :
       io' = [fn |-> "resolve", key |-> key, data |-> data,
              out |-> resolve(fetch_folders(data), key)]
  /\ UNCHANGED << rem, unit, rq, ck, prog, pc, exit, run, bid, written, noContent,
                  exportAll, bulkAll, prevExit, prevDone, diskAtStart, hist,
                  bootstrap, answer >>

\* ------------------------------------- normalisation of a list answer
unit_fetch_bookmarks ==
  /\ unit = "normalize"
  /\ \E data \in ListAnswers :
       io' = [fn |-> "fetch_bookmarks", key |-> "", data |-> data,
              out |-> normalize(data)]
  /\ UNCHANGED << rem, unit, rq, ck, prog, pc, exit, run, bid, written, noContent,
                  exportAll, bulkAll, prevExit, prevDone, diskAtStart, hist,
                  bootstrap, answer >>

\* ================================================ item transformation ==
\* Text is a sequence of characters; a literal of the program that is never
\* taken apart is one element.

Illegal    == {"<", ">", ":", "\"", "/", "\\", "|", "?", "*"}
Whitespace == {" ", "\t"}

\* "".join(c for c in t if c not in r'<>:"/\\|?*')
\* (character by character; the text is halved to keep the nesting shallow)
RECURSIVE without_illegal(_)
without_illegal(t) ==
  IF t = <<>> THEN <<>>
  ELSE IF Len(t) = 1 THEN (IF t[1] \in Illegal THEN <<>> ELSE t)
  ELSE without_illegal(SubSeq(t, 1, Len(t) \div 2))
       \o without_illegal(SubSeq(t, Len(t) \div 2 + 1, Len(t)))

\* str.strip()
RECURSIVE lstrip(_)
lstrip(t) ==
  IF t # <<>> /\ Head(t) \in Whitespace THEN lstrip(Tail(t)) ELSE t
RECURSIVE rstrip(_)
rstrip(t) ==
  IF t # <<>> /\ t[Len(t)] \in Whitespace
    THEN rstrip(SubSeq(t, 1, Len(t) - 1)) ELSE t
strip(t) == rstrip(lstrip(t))

sanitize_title(t) == strip(without_illegal(t))

\* a title that is cut before it is stripped
safe_of_cut_first(title) ==
  sanitize_title(SubSeq(title, 1, IF Len(title) < TITLE_MAX
                                    THEN Len(title) ELSE TITLE_MAX))
\* safe = sanitize_title(title)[:80]
safe_of(title) ==
  LET t == sanitize_title(title)
  IN  SubSeq(t, 1, IF Len(t) < TITLE_MAX THEN Len(t) ELSE TITLE_MAX)

\* title.replace('"', '\\"')
RECURSIVE escape_quotes(_)
escape_quotes(t) ==
  IF t = <<>> THEN <<>>
  ELSE IF Len(t) = 1 THEN (IF t[1] = "\"" THEN <<"\\", "\"">> ELSE t)
  ELSE escape_quotes(SubSeq(t, 1, Len(t) \div 2))
       \o escape_quotes(SubSeq(t, Len(t) \div 2 + 1, Len(t)))

\* the calendar date of a day count since 1970-01-01
civil_from_days(days) ==
  LET z   == days + 719468
      era == z \div 146097
      doe == z - era * 146097
      yoe == (doe - doe \div 1460 + doe \div 36524 - doe \div 146096) \div 365
      doy == doe - (365 * yoe + yoe \div 4 - yoe \div 100)
      mp  == (5 * doy + 2) \div 153
      d   == doy - (153 * mp + 2) \div 5 + 1
      m   == IF mp < 10 THEN mp + 3 ELSE mp - 9
  IN  << (yoe + era * 400) + (IF m <= 2 THEN 1 ELSE 0), m, d >>

\* datetime.fromtimestamp(ts): naive local time, tz being the offset of the
\* host's zone in seconds; datetime.now() is fromtimestamp of the clock.
fromtimestamp(ts, tz) == civil_from_days((ts + tz) \div 86400)

Digit(n) == <<"0", "1", "2", "3", "4", "5", "6", "7", "8", "9">>[n + 1]
RECURSIVE Digits(_)
Digits(n) == IF n < 10 THEN <<Digit(n)>>
             ELSE Digits(n \div 10) \o <<Digit(n % 10)>>

\* dt.strftime("%Y-%m-%d")
strftime(dt) ==
  << Digit(dt[1] \div 1000), Digit((dt[1] \div 100) % 10),
     Digit((dt[1] \div 10) % 10), Digit(dt[1] % 10), "-",
     Digit(dt[2] \div 10), Digit(dt[2] % 10), "-",
     Digit(dt[3] \div 10), Digit(dt[3] % 10) >>

\* values of bm.get("time_saved") and bm.get("time"): None, an integer, or
\* text that int() rejects
None         == [kind |-> "None", val |-> 0]
IntVal(n)    == [kind |-> "int", val |-> n]
BadText      == [kind |-> "str", val |-> 0]
truthy(v)    == v.kind = "str" \/ (v.kind = "int" /\ v.val # 0)

\* a choice that looks at 'time' first
timestamp_to_use_time_first(bm) ==
  IF truthy(bm.time)
    THEN [v |-> bm.time, key |-> "time"]
  ELSE IF truthy(bm.time_saved)
    THEN [v |-> bm.time_saved, key |-> "time_saved"]
  ELSE [v |-> None, key |-> "missing"]
\* if time_saved_val: ... elif time_val: ... else: ...
timestamp_to_use(bm) ==
  IF truthy(bm.time_saved)
    THEN [v |-> bm.time_saved, key |-> "time_saved"]
  ELSE IF truthy(bm.time)
    THEN [v |-> bm.time, key |-> "time"]
  ELSE [v |-> None, key |-> "missing"]

\* a fallback that turns to 'time' when 'time_saved' is not a number
invalid_format_try_time(bm, key, now, tz) ==
  IF key = "time_saved" /\ bm.time.kind = "int" /\ bm.time.val # 0
    THEN [dt |-> fromtimestamp(bm.time.val, tz), source |-> "original - time"]
    ELSE [dt |-> fromtimestamp(now, tz),
          source |-> IF key = "time_saved"
                       THEN "fallback - invalid format (time_saved)"
                       ELSE "fallback - invalid format (time)"]
\* except (ValueError, TypeError): saved_dt = None and the source names the
\* key; then `if saved_dt is None: saved_dt = datetime.now()`
invalid_format(bm, key, now, tz) ==
  [dt |-> fromtimestamp(now, tz),
   source |-> IF key = "time_saved"
                THEN "fallback - invalid format (time_saved)"
                ELSE "fallback - invalid format (time)"]

\* a date that is always the clock's
saved_dt_clock_only(bm, now, tz) ==
  [dt |-> fromtimestamp(now, tz), source |-> "fallback - missing"]
\* saved_dt and saved_date_source of main()
saved_dt(bm, now, tz) ==
  LET c == timestamp_to_use(bm)
  IN  IF c.key = "missing"
        THEN [dt |-> fromtimestamp(now, tz), source |-> "fallback - missing"]
      ELSE IF c.v.kind = "int"
        THEN [dt |-> fromtimestamp(c.v.val, tz),
              source |-> IF c.key = "time_saved"
                           THEN "original - time_saved"
                           ELSE "original - time"]
      ELSE invalid_format(bm, c.key, now, tz)

\* fname = f"{saved} – {safe}.md"
file_name(saved, safe) == saved \o <<" ", "EN DASH", " ">> \o safe \o <<".md">>

\* the lines of fm
frontmatter(bm, saved, source) ==
  << <<"---">>,
     <<"title: \"">> \o escape_quotes(bm.title) \o <<"\"">>,
     <<"original_url: \"", "url", "\"">>,
     <<"instapaper_id: ">> \o Digits(bm.bookmark_id),
     <<"date_saved: ">> \o saved,
     <<"date_saved_source: ", source>>,
     <<"---">>,
     <<>> >>

\* ---- the items, clocks and time zones the transformation is run on
ItemIds == {42, 7}
Stamps  == {1700000000, 1600000000}
Clock   == {1750000000, 1750100000}
Zones   == {0 - 28800, 0, 7200}

Pad(n)  == [i \in 1..n |-> "x"]
QuotedTitle ==
  << "A", " ", "\"", "Q", "u", "o", "t", "e", "d", "\"", " ",
     "T", "i", "t", "l", "e" >>
Titles ==
  { h \o Pad(n) \o t :
      h \in { <<>>, <<" ">>, <<"\"", "a">>, <<"a", "/", "b">> },
      n \in { 0, TITLE_MAX - 2, TITLE_MAX - 1, TITLE_MAX + 1 },
      t \in { <<>>, <<" ">>, <<"?">>, <<" ", "b">> } }
  \cup { QuotedTitle }

TimeValues == { None, IntVal(0), BadText } \cup { IntVal(ts) : ts \in Stamps }
Bookmarks ==
  [bookmark_id : ItemIds, title : Titles,
   time_saved : TimeValues, time : TimeValues]

\* the vault after open(out, "w") ... f.write(...): the file of that name
\* now holds the document of `owner`
open_w(files, name, owner) ==
  { f \in files : f.name # name } \cup { [name |-> name, owner |-> owner] }

\* The loop body of the export for one bookmark whose fetch, conversion and
\* write succeed: the date, the file name, fm, the file, processed.add.
export_item(bm, now, tz, before) ==
  LET r     == saved_dt(bm, now, tz)
      saved == strftime(r.dt)
      fname == file_name(saved, safe_of(bm.title))
  IN  [fn |-> "export_item", n |-> before.n + 1, bm |-> bm, now |-> now,
       tz |-> tz, saved |-> saved, source |-> r.source, fname |-> fname,
       fm |-> frontmatter(bm, saved, r.source),
       files |-> open_w(before.files, fname, bm.bookmark_id),
       paths |-> { q \in before.paths : q.id # bm.bookmark_id }
                   \cup { [id |-> bm.bookmark_id, name |-> fname] },
       first |-> IF before.n = 0
                   THEN [fname |-> fname, saved |-> saved, now |-> now]
                   ELSE before.first]

NoVault == [n |-> 0, files |-> {}, paths |-> {}, first |-> <<>>]

\* One bookmark is archived by a run on an empty vault; then a later run,
\* its manifest not holding the id, archives the same bookmark again or one
\* of the same title and timestamps under the other id.
unit_export_item ==
  /\ unit = "export_item"
  /\ \/ /\ io.fn = "none"
        /\ \E bm \in Bookmarks, now \in Clock, tz \in Zones :
             io' = export_item(bm, now, tz, NoVault)
     \/ /\ io.fn = "export_item" /\ io.n = 1
        /\ \E id \in ItemIds, now \in Clock :
             /\ now >= io.now
             /\ io' = export_item([io.bm EXCEPT !.bookmark_id = id],
                                  now, io.tz, io)
  /\ UNCHANGED << rem, unit, rq, ck, prog, pc, exit, run, bid, written, noContent,
                  exportAll, bulkAll, prevExit, prevDone, diskAtStart, hist,
                  bootstrap, answer >>

\* ---- the bulk import's file name
\* parsed CSV dates: None or a datetime
NoDate   == [kind |-> "None", dt |-> <<0, 0, 0>>]
Dates    == { NoDate, [kind |-> "dt", dt |-> <<2023, 11, 14>>],
              [kind |-> "dt", dt |-> <<2010, 10, 11>>] }
CsvRows  ==
  [id : ItemIds, title : Titles, archived_time_dt : Dates,
   saved_time_dt : Dates]

\* filename_date_str: archived time first, then saved time, else a fixed text
filename_date_str(bm_data) ==
  IF bm_data.archived_time_dt.kind # "None"
    THEN strftime(bm_data.archived_time_dt.dt)
  ELSE IF bm_data.saved_time_dt.kind # "None"
    THEN strftime(bm_data.saved_time_dt.dt)
  ELSE <<"YYYY-MM-DD_unknown_date">>

\* The loop body of the bulk import for one row whose fetch, conversion and
\* write succeed.
bulk_item(bm_data, before) ==
  LET fname == file_name(filename_date_str(bm_data), safe_of(bm_data.title))
  IN  [fn |-> "bulk_item", n |-> before.n + 1, bm |-> bm_data,
       fname |-> fname,
       files |-> open_w(before.files, fname, bm_data.id),
       paths |-> { q \in before.paths : q.id # bm_data.id }
                   \cup { [id |-> bm_data.id, name |-> fname] },
       first |-> IF before.n = 0
                   THEN [fname |-> fname, saved |-> filename_date_str(bm_data),
                         now |-> 0]
                   ELSE before.first]

unit_bulk_item ==
  /\ unit = "bulk_item"
  /\ \/ /\ io.fn = "none"
        /\ \E bm_data \in CsvRows : io' = bulk_item(bm_data, NoVault)
     \/ /\ io.fn = "bulk_item" /\ io.n = 1
        /\ \E id \in ItemIds :
             io' = bulk_item([io.bm EXCEPT !.id = id], io)
  /\ UNCHANGED << rem, unit, rq, ck, prog, pc, exit, run, bid, written, noContent,
                  exportAll, bulkAll, prevExit, prevDone, diskAtStart, hist,
                  bootstrap, answer >>

\* ---- one row of the CSV, as the bulk import and as the remediation pass
\* read it
\* values of the ID column
RawIds == { <<"4", "2">>, <<"7">>, <<" ", "7", " ">>, <<"0", "7">>, <<"0">>,
            <<>>, <<"x">> }
\* values of the Archived column
Flags  == { <<"1">>, <<"T", "r", "u", "e">>, <<"0">>, <<>> }
\* values of the two time columns: the column is missing, or holds text
RawDates ==
  { [kind |-> "None", text |-> <<>>] }
  \cup { [kind |-> "str", text |-> t] :
           t \in { <<>>, <<" ">>, <<"10/11/10 5:38">>,
                   <<" ", "2023-11-14 22:13:20">>, <<"soon">> } }
RawRows ==
  [ID : RawIds, Archived : Flags, Title : Titles,
   ArchivedTime : RawDates, SavedTime : RawDates]

\* str.lower() on the flags, whose only capital is T
lower(t) == [i \in 1..Len(t) |-> IF t[i] = "T" THEN "t" ELSE t[i]]

\* row.get("Archived", "0").strip().lower() in ['1', 'true']
is_archived(flag) == lower(strip(flag)) \in { <<"1">>, <<"t", "r", "u", "e">> }

\* int(text): the value of a run of decimal digits, ValueError otherwise
IsNumeral(t) ==
  t # <<>> /\ \A i \in 1..Len(t) : \E n \in 0..9 : t[i] = Digit(n)
RECURSIVE int(_)
int(t) ==
  LET last == CHOOSE n \in 0..9 : t[Len(t)] = Digit(n)
  IN  IF Len(t) = 1 THEN last ELSE 10 * int(SubSeq(t, 1, Len(t) - 1)) + last

\* datetime.strptime(dt_str, fmt) over formats_to_try: the date of the first
\* format that matches
strptime(dt_str) ==
  CASE dt_str = <<"10/11/10 5:38">>       -> [kind |-> "dt", dt |-> <<2010, 10, 11>>]
    [] dt_str = <<"2023-11-14 22:13:20">> -> [kind |-> "dt", dt |-> <<2023, 11, 14>>]
    [] OTHER                              -> NoDate

\* parse_csv_datetime (the same text in both scripts)
parse_csv_datetime(datetime_str) ==
  IF datetime_str.kind = "None" \/ datetime_str.text = <<>> THEN NoDate
  ELSE IF strip(datetime_str.text) = <<>> THEN NoDate
  ELSE strptime(strip(datetime_str.text))

Skipped == [skipped |-> TRUE, key |-> <<>>, fname |-> <<>>]

\* load_archived_bookmarks_from_csv for one row, then the manifest key and
\* the file name main() uses for it; a row that raises is skipped.
bulk_csv_row(row) ==
  LET id == strip(row.ID)
  IN  IF ~IsNumeral(id) THEN Skipped
      ELSE IF int(id) = 0 THEN Skipped
      ELSE IF ~is_archived(row.Archived) THEN Skipped
      ELSE LET bm_data == [id |-> int(id), title |-> strip(row.Title),
                           archived_time_dt |->
                             parse_csv_datetime(row.ArchivedTime),
                           saved_time_dt |->
                             parse_csv_datetime(row.SavedTime)]
           IN  [skipped |-> FALSE, key |-> Digits(bm_data.id),
                fname |-> file_name(filename_date_str(bm_data),
                                    safe_of(bm_data.title))]

\* The loop body of the remediation pass for one row: bid (here row_bid),
\* the expected file name, and the key it deletes
\* (str(bid_to_remove).strip()).
rem_csv_row(row) ==
  LET row_bid == strip(row.ID)
      title == strip(row.Title)
      archived_time_dt == parse_csv_datetime(row.ArchivedTime)
      saved_time_dt    == parse_csv_datetime(row.SavedTime)
      date == IF archived_time_dt.kind # "None"
                THEN strftime(archived_time_dt.dt)
              ELSE IF saved_time_dt.kind # "None"
                THEN strftime(saved_time_dt.dt)
              ELSE <<"YYYY-MM-DD_unknown_date">>
  IN  IF row_bid = <<>> THEN Skipped
      ELSE IF ~is_archived(row.Archived) THEN Skipped
      ELSE [skipped |-> FALSE, key |-> strip(row_bid),
            fname |-> file_name(date, safe_of(title))]

unit_csv_row ==
  /\ unit = "csv_row"
  /\ io.fn = "none"
  /\ \E row \in RawRows :
       io' = [fn |-> "csv_row", row |-> row, bulk |-> bulk_csv_row(row),
              rem |-> rem_csv_row(row)]
  /\ UNCHANGED << rem, unit, rq, ck, prog, pc, exit, run, bid, written,
                  noContent, exportAll, bulkAll, prevExit, prevDone,
                  diskAtStart, hist, bootstrap, answer >>

\* ------------------------------------------------------------- UnitSpec
Units == {"retry", "loop", "resolve", "normalize", "export_item",
          "bulk_item", "csv_row"}

\* No orchestrator runs; one component is exercised.
UnitInit ==
  /\ unit \in Units
  /\ rq = NoCall /\ ck = NoLoop /\ io = NoIO /\ rem = NoRem
  /\ prog = "none" /\ pc = "none" /\ exit = "none" /\ run = 1 /\ bid = 0
  /\ written = {} /\ noContent = {}
  /\ processed = {} /\ MANIFEST_FILE = Absent /\ bms = {}
  /\ folder_id = "" /\ payload = NoPayload /\ allSeen = FALSE
  /\ processed_manifest = <<>> /\ BULK_MANIFEST_FILE = Absent
  /\ csv = <<>> /\ idx = 0 /\ processed_in_session = 0
  /\ prevExit = "none" /\ prevDone = {} /\ diskAtStart = Absent
  /\ fetchedRun = {} /\ wroteRun = {} /\ slept = FALSE
  /\ bootstrap = NoBootstrap /\ answer = "none"

UnitNext ==
  \/ retry_call
  \/ retry_attempt
  \/ bulk_loop_row
  \/ unit_resolve
  \/ unit_fetch_bookmarks
  \/ unit_export_item
  \/ unit_bulk_item
  \/ unit_csv_row

UnitSpec == UnitInit /\ [][UnitNext]_vars

\* ============================================================ properties ==

\* ids a manifest document of the bulk import marks as success
SuccessIds(m) ==
  { b \in Ids : Str(b) \in DOMAIN m /\ m[Str(b)].status = "success" }

\* ids with an entry of any status in a manifest document of the bulk import
EntryIds(m) == { b \in Ids : Str(b) \in DOMAIN m }

\* ids the manifest file marks as archived / holds an entry for
DiskSuccess ==
  IF Disk.kind # "json" THEN {}
  ELSE IF prog = "export" THEN Disk.doc ELSE SuccessIds(Disk.doc)

LedgeredAtStart ==
  IF diskAtStart.kind # "json" THEN {}
  ELSE IF prog = "export" THEN diskAtStart.doc ELSE EntryIds(diskAtStart.doc)

\* the items a run is offered: the remote collection, or the CSV rows
Candidates ==
  IF prog = "export" THEN Source ELSE { csv[i] : i \in DOMAIN csv }

Aborted == exit \notin {"running", "killed", "normal"}

\* C1: no content fetch or transform is started for an item whose
\* identifier has a success entry in the Ledger, loaded or recorded.
C1_NoReprocessing ==
  pc \in {"fetch_text", "convert", "write"} => bid \notin MemSuccess

\* C1 witness: the second process of the bulk import skipped a row whose
\* success entry it loaded from disk and is fetching the following row.
C1_Witness ==
  /\ prog = "bulk" /\ run = 2 /\ Running /\ pc = "fetch_text"
  /\ idx = 2 /\ csv[1] # bid
  /\ csv[1] \in MemSuccess /\ csv[1] \in DiskSuccess
  /\ csv[1] \notin fetchedRun

C3_AtomicPersist ==
  exit = "killed" => Disk.kind \in {"absent", "json"}

\* C4 as stated: a second run after a completed first run fetches nothing,
\* writes nothing and leaves the on-disk Ledger as it found it.
C4_Idempotence ==
  (run >= 2 /\ prevExit = "normal" /\ exit = "normal")
    => /\ fetchedRun = {} /\ wroteRun = {}
       /\ Disk = diskAtStart

\* C4 amended: provided every offered item had a Ledger entry when the first
\* run completed, the second run fetches nothing, writes nothing and, when
\* it completes, leaves the on-disk Ledger equal to the one it found.
C4_IdempotenceWhenLedgered ==
  (run >= 2 /\ prevExit = "normal" /\ Candidates \subseteq LedgeredAtStart)
    => /\ fetchedRun = {} /\ wroteRun = {}
       /\ exit = "normal" => Disk = diskAtStart

\* C4 witness: the second run of the bulk import completed over a CSV whose
\* rows all had entries, one a success and one a failed fetch.
C4_Witness ==
  /\ prog = "bulk" /\ run = 2 /\ prevExit = "normal" /\ exit = "normal"
  /\ Len(csv) = 2 /\ Candidates \subseteq LedgeredAtStart
  /\ DiskSuccess # {} /\ DiskSuccess # Candidates
  /\ pc = "fsave_write"

\* C5: after a kill, the rerun neither fetches nor writes again an item the
\* killed process had ledgered as success.
C5_ConvergenceAfterKill ==
  (run >= 2 /\ prevExit = "killed")
    => fetchedRun \cap prevDone = {} /\ wroteRun \cap prevDone = {}

\* C6: a run that finds the manifest file unparseable still completes: it
\* does not end in the manifest load.
C6_CorruptManifestTolerated ==
  diskAtStart.kind = "partial" => exit # "load_error"

\* C7: when an uncaught exception ends the run, every item written and
\* recorded in memory before it has its entry on disk.
C7_AbortLeavesLedgerCurrent ==
  Aborted => RecordedRun \subseteq DiskSuccess

\* C8: every run comes to an end after a bounded number of list requests,
\* whatever the remote returns.
C8_RunTerminates == Running ~> ~Running

\* C9: after a non-empty batch that held no unseen identifier, no further
\* list request is issued in that run.
C9_DoneWhenAllSeen ==
  ~(pc = "list_wait" /\ allSeen)

\* C10: the 'have' hint of a list request holds at most the cap of
\* identifiers; the request carries the page-size ceiling and the folder.
C10_BoundedHint ==
  payload # NoPayload
    => /\ Cardinality(payload.have) <= HaveCap
       /\ payload.limit = MAX_LIMIT
       /\ payload.folder_id = folder_id

\* C11  The 'have' hint of every list request holds only identifiers whose
\* Ledger outcome is success: an id whose content fetch returned nothing (no
\* document of it is in the vault) is never part of the hint.
C11_HintIsSuccessOnly ==
  payload # NoPayload => payload.have \subseteq written

\* C16  Session establishment goes through the retry wrapper: a run that
\* fails on a 503 or a transport error of the bootstrap exchange has made
\* MAX_RETRIES bootstrap attempts.
C16_BootstrapRetried ==
  exit = "bootstrap_error" => bootstrap.attempts = MAX_RETRIES

RECURSIVE Pow(_, _)
Pow(b, n) == IF n = 0 THEN 1 ELSE b * Pow(b, n - 1)

Called == rq.wrapper \in Wrappers /\ rq.made >= 1

\* the latest answer was retried, or ended the call because it was the last
\* attempt allowed
RetriedUpToMax ==
  IF rq.made < MAX_RETRIES
    THEN rq.outcome = "running" /\ Len(rq.sleeps) = rq.made
         /\ rq.attempt = rq.made + 1
    ELSE rq.outcome = "raised" /\ Len(rq.sleeps) = MAX_RETRIES - 1

\* C12  A wrapped call answered 503 every time is attempted exactly
\* MAX_RETRIES times and then raises the last error; no attempt and no sleep
\* follows the last attempt.  Both wrappers.
C12_Always503 ==
  (Called /\ rq.all503) =>
    /\ rq.made <= MAX_RETRIES
    /\ rq.outcome # "returned"
    /\ (rq.outcome = "raised" <=> rq.made = MAX_RETRIES)
    /\ (rq.outcome = "raised" =>
          /\ Len(rq.sleeps) = MAX_RETRIES - 1
          /\ rq.last_error = Err("HTTPError", 503))

C12_Witness ==
  /\ rq.wrapper = "retry_request_html" /\ rq.all503
  /\ rq.made = MAX_RETRIES /\ rq.outcome = "raised"

\* C13  The sleep before the k-th retry lasts BACKOFF_FACTOR^(k-1): the
\* delay starts at 1 in every wrapped call and is multiplied after each
\* retryable failure; at most MAX_RETRIES - 1 sleeps happen.
C13_Backoff ==
  rq.wrapper \in Wrappers =>
    /\ Len(rq.sleeps) <= MAX_RETRIES - 1
    /\ \A k \in 1..Len(rq.sleeps) : rq.sleeps[k] = Pow(BACKOFF_FACTOR, k - 1)
    /\ (rq.made = 0 => rq.delay = 1)

C13_Witness ==
  /\ rq.wrapper \in Wrappers /\ rq.call = 2
  /\ Len(rq.sleeps) = MAX_RETRIES - 1

\* C14  An answer with a non-2xx status other than 503 ends the call at
\* once: the error is raised, no sleep and no further attempt follows it.
C14_OtherStatusFatal ==
  (Called /\ rq.last.exc = "none" /\ rq.last.status \notin 200..299
          /\ rq.last.status # 503) =>
    rq.outcome = "raised" /\ Len(rq.sleeps) = rq.made - 1

\* C15  retry_request treats a 2xx answer whose body is not JSON as
\* transient: it is retried with backoff up to MAX_RETRIES attempts, exactly
\* as a 503 is.
C15_DecodeErrorRetried ==
  (Called /\ rq.wrapper = "retry_request" /\ rq.last.exc = "none"
          /\ \/ rq.last.status \in 200..299 /\ rq.last.body = "text"
             \/ rq.last.status = 503) =>
    RetriedUpToMax

C15_Witness ==
  /\ rq.wrapper = "retry_request" /\ rq.made = MAX_RETRIES
  /\ rq.last.status = 200 /\ rq.last.body = "text"
  /\ rq.outcome = "raised" /\ rq.last_error.type = "ValueError"
  /\ ~rq.all503

\* C18  resolve gives the reserved identifier for 'unread', 'starred' and
\* 'archive' whatever the user's folders are; for another name the folder_id
\* of a user folder of exactly that title; the name itself when there is
\* none.
C18_Resolve ==
  io.fn = "resolve" =>
    LET titled == { i \in 1..Len(io.data) :
                      io.data[i].type = "folder" /\ io.data[i].title = io.key }
    IN  IF io.key \in BuiltIn THEN io.out = io.key
        ELSE IF titled # {} THEN \E i \in titled : io.out = io.data[i].folder_id
        ELSE io.out = io.key

\* C19  Normalisation: a flat array gives exactly its records of type
\* 'bookmark', in their order and unchanged; an object gives its bookmarks
\* array verbatim, and the empty list when that is missing or null.
C19_Normalize ==
  io.fn = "fetch_bookmarks" =>
    LET q   == io.data.items
        bm  == { i \in 1..Len(q) : q[i].dict /\ q[i].type = "bookmark" }
        nth(k) == CHOOSE i \in bm : Cardinality({ j \in bm : j < i }) = k - 1
    IN  /\ io.out.raised = "none"
        /\ IF io.data.shape = "list"
             THEN /\ Len(io.out.bookmarks) = Cardinality(bm)
                  /\ \A k \in 1..Cardinality(bm) :
                        io.out.bookmarks[k] = q[nth(k)]
             ELSE io.out.bookmarks =
                    IF io.data.bookmarks = "array" THEN q ELSE <<>>

\* C20  The manifest entries recorded in memory since the last save stay
\* within a fixed constant (the longest save period of the loop) whatever
\* the sequence of success, fetch-failure and conversion-failure outcomes.
C20_UnsavedBounded ==
  ck.unsaved <= SAVE_EVERY_FAIL

\* ---- properties of the per-item outcomes (Spec)

\* ids the in-memory manifest holds an entry for
Entries == IF prog = "bulk" THEN EntryIds(processed_manifest) ELSE processed

\* the program leaves the step of the current item (the process is not killed)
ItemStep(at) == Running /\ pc = at /\ exit' # "killed"

\* C21  When the loop ends normally the manifest was saved last: the file
\* holds the in-memory manifest.  The export has also saved it whenever it
\* is about to request the next batch.
C21_PersistLast ==
  /\ exit = "normal" => pc \in {"fsave_write", "csv"}
  /\ (exit = "normal" /\ pc = "fsave_write") =>
        Disk = Json(IF prog = "bulk" THEN processed_manifest ELSE processed)
  /\ (prog = "export" /\ pc = "while") => IdsOf(MANIFEST_FILE) = processed

C21_Witness ==
  /\ prog = "export" /\ run = 1 /\ exit = "normal"
  /\ processed = Ids /\ written # {} /\ noContent # {}
  /\ MANIFEST_FILE = Json(processed)

\* C22  A content fetch that yields nothing writes no document, leaves a
\* non-success entry for the item in the manifest, and no later fetch of
\* the same run is for an item whose fetch yielded nothing in this run.
FetchFailedRun ==
  IF prog = "bulk"
    THEN { b \in fetchedRun : /\ Str(b) \in DOMAIN processed_manifest
                              /\ processed_manifest[Str(b)].status
                                   = "text_fetch_failed" }
    ELSE (fetchedRun \cap processed) \ wroteRun

C23_WriteFailureNoEntry ==
  [][ /\ (ItemStep("write") /\ pc' # "record") =>
          /\ Entries' = Entries /\ bid \notin Entries'
      /\ (ItemStep("convert") /\ pc' # "write") => bid \in Entries'
    ]_vars

\* C24  A failure on one item never ends the run: after the fetch, the
\* conversion and the write step of an item the program is still running.
C24_ItemFailureContinues ==
  [][ (ItemStep("fetch_text") \/ ItemStep("convert") \/ ItemStep("write"))
        => exit' = "running" ]_vars

\* C25  An item whose manifest entry is not a success is not retried: a
\* later run never fetches it, and its entry stays as it was, in memory once
\* the manifest is loaded and in every complete manifest file.
NonSuccessAtStart ==
  IF diskAtStart.kind # "json" THEN {}
  ELSE IF prog = "bulk"
    THEN EntryIds(diskAtStart.doc) \ SuccessIds(diskAtStart.doc)
    ELSE (diskAtStart.doc \cap noContent) \ written

C25_NonSuccessNotRetried ==
  \A b \in NonSuccessAtStart :
    /\ b \notin fetchedRun
    /\ pc \notin {"oauth", "folders", "load"} =>
         IF prog = "bulk"
           THEN /\ Str(b) \in DOMAIN processed_manifest
                /\ processed_manifest[Str(b)] = diskAtStart.doc[Str(b)]
           ELSE b \in processed
    /\ Disk.kind = "json" =>
         IF prog = "bulk"
           THEN /\ Str(b) \in DOMAIN Disk.doc
                /\ Disk.doc[Str(b)] = diskAtStart.doc[Str(b)]
           ELSE b \in Disk.doc

C25_Witness ==
  /\ prog = "bulk" /\ run = 2 /\ exit = "normal" /\ pc = "fsave_write"
  /\ NonSuccessAtStart # {} /\ fetchedRun # {}

\* ---- properties of the item transformation (UnitSpec)

\* the field holds a timestamp
Usable(v) == v.kind = "int" /\ v.val # 0

\* the same bookmark was archived by both runs
Rerun == io.fn \in {"export_item", "bulk_item"} /\ io.n = 2
         /\ Cardinality(io.paths) = 1

\* C26  Date fallback order of the export: with a primary timestamp
\* (time_saved) the date is the primary's; with the secondary (time) only,
\* the secondary's; with neither, the clock's; and fm names the source used.
C26_DateFallback ==
  io.fn = "export_item" =>
    LET bm == io.bm
    IN  /\ Usable(bm.time_saved) =>
              /\ io.saved = strftime(fromtimestamp(bm.time_saved.val, io.tz))
              /\ io.source = "original - time_saved"
        /\ (bm.time_saved = None /\ Usable(bm.time)) =>
              /\ io.saved = strftime(fromtimestamp(bm.time.val, io.tz))
              /\ io.source = "original - time"
        /\ (bm.time_saved = None /\ bm.time = None) =>
              /\ io.saved = strftime(fromtimestamp(io.now, io.tz))
              /\ io.source = "fallback - missing"
        /\ \E i \in 1..Len(io.fm) :
              io.fm[i] = <<"date_saved_source: ", io.source>>
        /\ \E i \in 1..Len(io.fm) : io.fm[i] = <<"date_saved: ">> \o io.saved

C26_Witness ==
  /\ io.fn = "export_item" /\ io.bm.time_saved = None
  /\ io.bm.time = IntVal(1600000000) /\ io.source = "original - time"
  /\ io.saved # strftime(fromtimestamp(io.now, io.tz))

\* C27  The same bookmark gets the same file name in two runs that differ
\* in the clock and in the manifest.
C27_SameName ==
  Rerun => io.fname = io.first.fname

\* C27 (amended)  ... provided the bookmark carries the timestamp its date
\* is taken from (export), or is a row of the CSV (bulk import).
C27_SameNameWhenDated ==
  (Rerun /\ (\/ io.fn = "bulk_item"
             \/ Usable(io.bm.time_saved)
             \/ (~truthy(io.bm.time_saved) /\ Usable(io.bm.time))))
    => io.fname = io.first.fname

C27_Witness ==
  /\ Rerun /\ io.fn = "export_item" /\ Usable(io.bm.time_saved)
  /\ strftime(fromtimestamp(io.now, io.tz))
       # strftime(fromtimestamp(io.first.now, io.tz))
  /\ io.fname = io.first.fname

\* C28  No two identifiers recorded as archived share an output file: the
\* file of each still holds that item's document.
C28_OneDocumentPerItem ==
  io.fn \in {"export_item", "bulk_item"} =>
    /\ \A p, q \in io.paths : p.id # q.id => p.name # q.name
    /\ \A p \in io.paths :
         \E f \in io.files : f.name = p.name /\ f.owner = p.id

\* C29  The export's file name is '<YYYY-MM-DD> – <T>.md', T being the title
\* without the characters < > : " / \ | ? *, stripped of surrounding
\* whitespace, then cut to 80 characters; T holds none of those characters,
\* and the same date and title give the same name.
C29_FileName ==
  io.fn = "export_item" =>
    LET legal(c) == c \notin Illegal
        kept == SelectSeq(io.bm.title, legal)
        ink  == { i \in 1..Len(kept) : kept[i] \notin Whitespace }
        lo   == CHOOSE i \in ink : \A j \in ink : i <= j
        hi   == CHOOSE i \in ink : \A j \in ink : j <= i
        core == IF ink = {} THEN <<>> ELSE SubSeq(kept, lo, hi)
        T    == [i \in 1..(IF Len(core) < TITLE_MAX THEN Len(core)
                            ELSE TITLE_MAX) |-> core[i]]
    IN  /\ io.fname = io.saved \o <<" ", "EN DASH", " ">> \o T \o <<".md">>
        /\ Len(io.saved) = 10 /\ io.saved[5] = "-" /\ io.saved[8] = "-"
        /\ \A i \in 1..Len(T) : T[i] \notin Illegal
        /\ Len(T) <= TITLE_MAX
        /\ (io.n = 2 /\ io.saved = io.first.saved) =>
              io.fname = io.first.fname

C29_Witness ==
  /\ io.fn = "export_item" /\ io.n = 2
  /\ Len(io.bm.title) = TITLE_MAX + 3
  /\ Head(io.bm.title) = "\"" /\ io.bm.title[Len(io.bm.title)] = "b"
  /\ Len(io.fname) = 10 + 3 + TITLE_MAX + 1

\* C30  The bookmark {id 42, title 'A "Quoted" Title', saved 1700000000} is
\* archived as '2023-11-14 – A Quoted Title.md'; fm holds the line
\* 'instapaper_id: 42' and the title with a backslash before each quote.
C30_Scenario ==
  (/\ io.fn = "export_item" /\ io.bm.bookmark_id = 42
   /\ io.bm.title = QuotedTitle
   /\ io.bm.time_saved = IntVal(1700000000)) =>
    /\ io.fname =
         << "2", "0", "2", "3", "-", "1", "1", "-", "1", "4",
            " ", "EN DASH", " ",
            "A", " ", "Q", "u", "o", "t", "e", "d", " ",
            "T", "i", "t", "l", "e", ".md" >>
    /\ \E i \in 1..Len(io.fm) : io.fm[i] = <<"instapaper_id: ", "4", "2">>
    /\ \E i \in 1..Len(io.fm) :
         io.fm[i] = << "title: \"", "A", " ", "\\", "\"", "Q", "u", "o", "t",
                       "e", "d", "\\", "\"", " ", "T", "i", "t", "l", "e",
                       "\"" >>

\* ---- rate limiting (Spec)

\* C31  The RATE_DELAY sleep lies between any two consecutive content
\* fetches of a run: whenever a content fetch begins and the process has
\* made one before, the sleep ran since that earlier fetch, whatever its
\* outcome was.
C31_SleepBetweenFetches ==
  [][ (ItemStep("fetch_text") /\ fetchedRun # {}) => slept ]_vars

\* ---- the manifest file (Spec)

\* The top-level JSON value of a complete manifest file: the export dumps
\* list(ids), the bulk import dumps the dict keyed by str(id).
DiskShape == IF prog = "export" THEN "array" ELSE "object"

\* an outcome record: status and title; a path and no message on success,
\* a message and no path otherwise
WellFormedEntry(e) ==
  /\ {"status", "title"} \subseteq DOMAIN e
  /\ IF e.status = "success"
       THEN "file_path" \in DOMAIN e /\ "error_message" \notin DOMAIN e
       ELSE "error_message" \in DOMAIN e /\ "file_path" \notin DOMAIN e

\* C32  Whenever the manifest file exists it is one complete document, a
\* mapping from str(id) to a well-formed outcome record.
C32_LedgerFile ==
  Disk.kind # "absent" =>
    /\ Disk.kind = "json"
    /\ DiskShape = "object"
    /\ DOMAIN Disk.doc \subseteq { Str(b) : b \in Ids }
    /\ \A k \in DOMAIN Disk.doc : WellFormedEntry(Disk.doc[k])

\* ---- the HTML retry wrapper (UnitSpec)

\* C33  retry_request_html returns exactly when the latest response has
\* status 200; a response with another status that raise_for_status lets
\* through ends the call with an error at once: no sleep and no further
\* request follow it.
C33_HtmlOnly200 ==
  (unit = "retry" /\ rq.wrapper = "retry_request_html" /\ rq.made > 0) =>
    /\ rq.outcome = "returned" <=>
          (rq.last.exc = "none" /\ rq.last.status = 200)
    /\ (/\ rq.last.exc = "none" /\ rq.last.status # 200
        /\ ~raise_for_status(rq.last.status)) =>
          /\ rq.outcome = "raised"
          /\ rq.last_error = Err("UnexpectedStatus", rq.last.status)
          /\ Len(rq.sleeps) = rq.made - 1

C33_Witness ==
  /\ unit = "retry" /\ rq.wrapper = "retry_request_html"
  /\ rq.made = 1 /\ rq.last.exc = "none" /\ rq.last.status = 204
  /\ rq.outcome = "raised"

\* ---- the remediation pass (RemSpec)

\* the pass takes a step
RemStep == rem' # rem

\* the ids whose entry the pass deleted from the manifest it loaded
Removed == { b \in rem.missing : Str(b) \in DOMAIN rem.loaded }

\* C34  The pass changes the manifest file only after it has made the
\* backup copy: it ends without a backup, and without having touched the
\* file, when nothing is missing, when the manifest is absent, unreadable
\* or unparseable, and when the copy fails.
C34_BackupFirst ==
  /\ [][ (RemStep /\ BULK_MANIFEST_FILE' # BULK_MANIFEST_FILE) =>
           (rem.backup # Absent /\ rem.pc \in {"remove", "write"}) ]_vars
  /\ [][ (RemStep /\ rem'.outcome \in {"scan_error", "nothing_missing",
                                       "no_manifest", "unparseable",
                                       "unreadable", "backup_failed"}) =>
           /\ BULK_MANIFEST_FILE' = BULK_MANIFEST_FILE
           /\ rem'.pc = "done" /\ rem'.disk = Absent ]_vars
  /\ [](rem.pc \in {"remove", "write"} => rem.backup # Absent)

C34_Witness ==
  /\ rem.outcome = "saved" /\ rem.backup.kind = "json"
  /\ BULK_MANIFEST_FILE = Json(rem.manifest_data)
  /\ rem.backup # BULK_MANIFEST_FILE

C40_NoLostUpdate ==
  /\ [](\A b \in Removed :
          (/\ rem.outcome = "saved" /\ BULK_MANIFEST_FILE.kind = "json"
           /\ Str(b) \in DOMAIN BULK_MANIFEST_FILE.doc) => b \in fetchedRun)
  /\ [][ (RemStep /\ rem'.outcome = "saved" /\ rem.disk.kind = "json") =>
           \A k \in DOMAIN rem.disk.doc :
             \/ k \in { Str(b) : b \in rem.missing }
             \/ /\ k \in DOMAIN BULK_MANIFEST_FILE'.doc
                /\ BULK_MANIFEST_FILE'.doc[k] = rem.disk.doc[k] ]_vars

\* ---- the two readers of the CSV (UnitSpec)

\* C36  For every row the bulk import takes, the remediation pass takes it
\* too, expects the file name the import writes and deletes the manifest key
\* the import records.
C36_SameNameAndKey ==
  (io.fn = "csv_row" /\ ~io.bulk.skipped) =>
    /\ ~io.rem.skipped
    /\ io.rem.fname = io.bulk.fname
    /\ io.rem.key = io.bulk.key

\* ---- growth of the manifest within a process (Spec)

\* the program records an entry for the current item
Records ==
  \/ ItemStep("record")
  \/ ItemStep("fetch_text") /\ pc' # "convert"
  \/ prog = "bulk" /\ ItemStep("convert") /\ pc' # "write"

\* C37  Within one process the in-memory manifest only grows: every entry
\* stays as it is, and an entry is recorded only for an item that has none.
C37_LedgerOnlyGrows ==
  [][ run' = run =>
        /\ Entries \subseteq Entries'
        /\ \A k \in DOMAIN processed_manifest :
             /\ k \in DOMAIN processed_manifest'
             /\ processed_manifest'[k] = processed_manifest[k]
        /\ Records => (bid \notin Entries /\ Entries' = Entries \cup {bid})
    ]_vars

C37_Witness ==
  /\ run = 2 /\ exit = "normal" /\ pc = "fsave_write"
  /\ LedgeredAtStart # {} /\ fetchedRun # {}
  /\ LedgeredAtStart \subseteq Entries /\ Entries # LedgeredAtStart
  /\ noContent # {} /\ wroteRun # {}

\* ---- an unparseable primary timestamp (UnitSpec)

\* C38  When time_saved is present and is not a number, the export does
\* not turn to 'time': the date is the clock's and the recorded source is
\* the fallback marker that names time_saved.
C38_InvalidPrimary ==
  (io.fn = "export_item" /\ io.bm.time_saved = BadText) =>
    /\ io.saved = strftime(fromtimestamp(io.now, io.tz))
    /\ io.source = "fallback - invalid format (time_saved)"
    /\ io.fm[5] = <<"date_saved: ">> \o io.saved
    /\ io.fm[6] = <<"date_saved_source: ", io.source>>

C38_Witness ==
  /\ io.fn = "export_item" /\ io.bm.time_saved = BadText
  /\ Usable(io.bm.time)
  /\ io.saved # strftime(fromtimestamp(io.bm.time.val, io.tz))
  /\ io.source = "fallback - invalid format (time_saved)"

\* ---- an error record in a flat list answer (Spec)

====
